---- MODULE Spec2Model ----
(***************************************************************************)
(* A model of ublox/modules.py: the AT command transaction engine of       *)
(* SaraN211Module (_write, _read_line_until_contains, _process_urc and the *)
(* URC callbacks), connect / _await_connection of SaraN211Module (passive) *)
(* and of SaraR4Module (active polling), the radio statistics parser, and  *)
(* send_udp_data / receive_udp_data.                                       *)
(*                                                                         *)
(* Byte strings are sequences of one-character strings, so that the        *)
(* string operations of the code (startswith, in, find, slicing, split,    *)
(* lstrip, indexing a bytes object) are computed, not assumed.             *)
(***************************************************************************)
EXTENDS Integers, Sequences, FiniteSets, TLC

(***************************************************************************)
(* Bounds of the model.                                                    *)
(***************************************************************************)
\* lines the module sends in all, acknowledgements and terminal status lines
\* not counted
MaxLines == 2
\* the same, while the response to a status query of the polling loop is read
MaxPollLines == 2
\* commands written whose response has not been read to its end
MaxOwed == 2
\* the same, for a connect and for a status query of the polling loop
MaxOwedPolling == 1
\* status queries of one polling loop
MaxPolls == 2
\* entries of available_messages
MaxQueue == 2
\* the same as MaxLines, while no response is owed (a passive wait)
MaxWaitLines == 3

(***************************************************************************)
(* Characters and Python's string operations.                              *)
(***************************************************************************)
CR == "\r"
LF == "\n"
CRLF == <<CR, LF>>

\* the printable ASCII characters, from code 32 on (code 96 is spelled out)
Ascii ==
    <<" ", "!", "\"", "#", "$", "%", "&", "'", "(", ")", "*", "+", ",", "-", ".", "/", "0", "1", "2", "3", "4", "5", "6", "7", "8", "9", ":", ";", "<", "=", ">", "?", "@", "A", "B", "C", "D", "E", "F", "G", "H", "I", "J", "K", "L", "M", "N", "O", "P", "Q", "R", "S", "T", "U", "V", "W", "X", "Y", "Z", "[", "\\", "]", "^", "_", "grave", "a", "b", "c", "d", "e", "f", "g", "h", "i", "j", "k", "l", "m", "n", "o", "p", "q", "r", "s", "t", "u", "v", "w", "x", "y", "z", "{", "|", "}", "~">>

\* b[i] of a bytes object: the integer code of the byte
Ord(c) ==
    IF c = CR THEN 13
    ELSE IF c = LF THEN 10
    ELSE 31 + (CHOOSE i \in 1..Len(Ascii) : Ascii[i] = c)

Digits == {"0", "1", "2", "3", "4", "5", "6", "7", "8", "9"}

\* int(s) of a one-character string: defined on the decimal digits only
IsDigit(c) == c \in Digits

DigitValue(c) == Ord(c) - Ord("0")

Whitespace == {" ", "\t", CR, LF}

Min(a, b) == IF a < b THEN a ELSE b

Max(a, b) == IF a > b THEN a ELSE b

\* s[a:] for a >= 0
SliceFrom(s, a) == SubSeq(s, Min(a, Len(s)) + 1, Len(s))

\* s[a:b] for a >= 0 and any b (a negative b counts from the end)
Slice(s, a, b) ==
    LET e == IF b < 0 THEN Max(Len(s) + b, 0) ELSE Min(b, Len(s))
    IN  SubSeq(s, Min(a, Len(s)) + 1, e)

\* s.startswith(p)
StartsWith(s, p) == Len(s) >= Len(p) /\ SubSeq(s, 1, Len(p)) = p

\* s.endswith(p)
EndsWith(s, p) == Len(s) >= Len(p) /\ SubSeq(s, Len(s) - Len(p) + 1, Len(s)) = p

\* p in s
Contains(s, p) ==
    \E i \in 1..(Len(s) - Len(p) + 1) : SubSeq(s, i, i + Len(p) - 1) = p

\* s.find(c): the 0-based index of the first c, or -1
Find(s, c) ==
    IF \E i \in 1..Len(s) : s[i] = c
    THEN (CHOOSE i \in 1..Len(s) : s[i] = c /\ \A j \in 1..(i - 1) : s[j] # c) - 1
    ELSE -1

RECURSIVE Split(_, _)
\* s.split(c)
Split(s, c) ==
    IF Find(s, c) = -1 THEN <<s>>
    ELSE <<SubSeq(s, 1, Find(s, c))>> \o Split(SliceFrom(s, Find(s, c) + 1), c)

RECURSIVE LStrip(_)
\* s.lstrip()
LStrip(s) ==
    IF s # <<>> /\ s[1] \in Whitespace THEN LStrip(Tail(s)) ELSE s

RECURSIVE Str(_)
\* format(n) of a non-negative integer
Str(n) ==
    IF n < 10 THEN <<Ascii[17 + n]>>
    ELSE Str(n \div 10) \o <<Ascii[17 + (n % 10)]>>

\* s.upper() of an operator name
Upper(s) ==
    [i \in 1..Len(s) |->
        IF Ord(s[i]) >= Ord("a") /\ Ord(s[i]) <= Ord("z")
        THEN Ascii[Ord(s[i]) - 32 - 31] ELSE s[i]]

RECURSIVE RStrip(_)
\* s.rstrip()
RStrip(s) ==
    IF s # <<>> /\ s[Len(s)] \in Whitespace THEN RStrip(SubSeq(s, 1, Len(s) - 1)) ELSE s

\* s.strip()
Strip(s) == RStrip(LStrip(s))

\* s.replace(c, '') for a one-character c
Remove(s, c) == SelectSeq(s, LAMBDA x : x # c)

\* the digits of int(s), after the whitespace and the sign are taken off
IntDigits(s) ==
    IF Strip(s) # <<>> /\ Strip(s)[1] \in {"+", "-"} THEN Tail(Strip(s)) ELSE Strip(s)

\* whether int(s) returns for a string; it raises ValueError otherwise
IsInt(s) == IntDigits(s) # <<>> /\ \A i \in 1..Len(IntDigits(s)) : IsDigit(IntDigits(s)[i])

RECURSIVE Magnitude(_)
Magnitude(d) ==
    IF d = <<>> THEN 0
    ELSE 10 * Magnitude(SubSeq(d, 1, Len(d) - 1)) + DigitValue(d[Len(d)])

\* int(s) of a string for which IsInt holds
IntValue(s) ==
    IF Strip(s)[1] = "-" THEN 0 - Magnitude(IntDigits(s)) ELSE Magnitude(IntDigits(s))

HexDigits == <<"0", "1", "2", "3", "4", "5", "6", "7", "8", "9", "A", "B", "C", "D", "E", "F">>

\* binascii.hexlify(b).upper() of one byte
HexByte(b) == <<HexDigits[(b \div 16) + 1], HexDigits[(b % 16) + 1]>>

RECURSIVE Hexlify(_)
\* binascii.hexlify(bytes).upper().decode()
Hexlify(bytes) ==
    IF bytes = <<>> THEN <<>> ELSE HexByte(Head(bytes)) \o Hexlify(Tail(bytes))

\* the value of a hexadecimal digit, upper or lower case; -1 for another character
HexValue(c) ==
    IF \E i \in 1..16 : HexDigits[i] = c
    THEN (CHOOSE i \in 1..16 : HexDigits[i] = c) - 1
    ELSE IF c \in {"a", "b", "c", "d", "e", "f"} THEN Ord(c) - Ord("a") + 10
    ELSE -1

\* whether bytes.fromhex(s) returns (for a string without whitespace)
IsHex(s) == Len(s) % 2 = 0 /\ \A i \in 1..Len(s) : HexValue(s[i]) >= 0

\* bytes.fromhex(s): the byte values
FromHex(s) ==
    [i \in 1..(Len(s) \div 2) |-> 16 * HexValue(s[2 * i - 1]) + HexValue(s[2 * i])]

\* chr(n).encode(): the UTF-8 bytes of the code point n
Utf8(n) ==
    IF n < 128 THEN <<n>>
    ELSE IF n < 2048 THEN <<192 + (n \div 64), 128 + (n % 64)>>
    ELSE IF n < 65536
    THEN <<224 + (n \div 4096), 128 + ((n \div 64) % 64), 128 + (n % 64)>>
    ELSE <<240 + (n \div 262144), 128 + ((n \div 4096) % 64),
           128 + ((n \div 64) % 64), 128 + (n % 64)>>

RECURSIVE Encode(_)
\* data.encode() of a str given as its code points
Encode(data) == IF data = <<>> THEN <<>> ELSE Utf8(Head(data)) \o Encode(Tail(data))

(***************************************************************************)
(* Program constants and the texts the code compares with.                 *)
(***************************************************************************)
\* self.eps_reg_status = None (no status reported yet)
None == -1

\* OPERATOR_MAP
OPERATOR_TELIA == 24001

OPERATOR_TRE == 24002

\* the timeout of serial.Serial: the longest one readline() blocks, in seconds
READ_TIMEOUT == 300

\* timeout=180 of SaraR4Module._await_connection
AWAIT_TIMEOUT == 180

\* time.sleep(2) of SaraR4Module._await_connection
POLL_SLEEP == 2

AT_ENABLE_SIGNALING_CONNECTION_URC == <<"A", "T", "+", "C", "S", "C", "O", "N", "=", "1">>

AT_COPS_AUTO == <<"A", "T", "+", "C", "O", "P", "S", "=", "0">>

AT_COPS_PREFIX == <<"A", "T", "+", "C", "O", "P", "S", "=", "1", ",", "2", ",", "\"">>

AT_RADIO_INFORMATION ==
    <<"A", "T", "+", "N", "U", "E", "S", "T", "A", "T", "S", "=", "\"", "R", "A", "D", "I", "O", "\"">>

AT_SEND_TO == <<"A", "T", "+", "N", "S", "O", "S", "T", "=", "0">>

AT_USOST_PREFIX == <<"A", "T", "+", "U", "S", "O", "S", "T", "=", "0", ",">>

AT_NSORF_PREFIX == <<"A", "T", "+", "N", "S", "O", "R", "F", "=">>

TOK_NSONMI == <<"+", "N", "S", "O", "N", "M", "I">>

AT_CEREG_QUERY == <<"A", "T", "+", "C", "E", "R", "E", "G", "?">>

TOK_OK == <<"O", "K">>

TOK_ERROR == <<"E", "R", "R", "O", "R">>

TOK_CEREG5 == <<"C", "E", "R", "E", "G", ":", " ", "5">>

TOK_CEREG1 == <<"C", "E", "R", "E", "G", ":", " ", "1">>

ID_CSCON == <<"C", "S", "C", "O", "N">>

ID_CEREG == <<"C", "E", "R", "E", "G">>

ID_CGPADDR == <<"C", "G", "P", "A", "D", "D", "R">>

ID_NSONMI == <<"N", "S", "O", "N", "M", "I">>

ID_CME_ERROR == <<"C", "M", "E", " ", "E", "R", "R", "O", "R">>

NAME_TELIA == <<"T", "E", "L", "I", "A">>

NAME_TRE == <<"T", "R", "E">>

IRC_NUESTATS == <<"N", "U", "E", "S", "T", "A", "T", "S">>

TYPE_RADIO == <<"R", "A", "D", "I", "O">>

\* the statistics names _parse_radio_stats knows, with the field each sets
RadioNames ==
    <<<<"S", "i", "g", "n", "a", "l", " ", "p", "o", "w", "e", "r">>,
      <<"T", "o", "t", "a", "l", " ", "p", "o", "w", "e", "r">>,
      <<"T", "X", " ", "p", "o", "w", "e", "r">>,
      <<"T", "X", " ", "t", "i", "m", "e">>,
      <<"R", "X", " ", "t", "i", "m", "e">>,
      <<"C", "e", "l", "l", " ", "I", "D">>,
      <<"E", "C", "L">>,
      <<"S", "N", "R">>,
      <<"E", "A", "R", "F", "C", "N">>,
      <<"P", "C", "I">>,
      <<"R", "S", "R", "Q">>>>

RadioFields ==
    <<"radio_signal_power", "radio_total_power", "radio_tx_power", "radio_tx_time",
      "radio_rx_time", "radio_cell_id", "radio_ecl", "radio_snr", "radio_earfcn",
      "radio_pci", "radio_rsrq">>

(***************************************************************************)
(* The lines the module sends (without their line ending).                 *)
(***************************************************************************)
L_OK == <<"O", "K">>

L_ERROR == <<"E", "R", "R", "O", "R">>

L_EMPTY == <<>>

\* two result lines; the second has the characters OK in it
L_SOCKET == <<"0">>

L_NOKIA == <<"N", "O", "K", "I", "A">>

L_CSCON0 == <<"+", "C", "S", "C", "O", "N", ":", " ", "0">>

L_CSCON1 == <<"+", "C", "S", "C", "O", "N", ":", " ", "1">>

L_CEREG0 == <<"+", "C", "E", "R", "E", "G", ":", " ", "0">>

L_CEREG1 == <<"+", "C", "E", "R", "E", "G", ":", " ", "1">>

L_CEREG2 == <<"+", "C", "E", "R", "E", "G", ":", " ", "2">>

L_CEREG5 == <<"+", "C", "E", "R", "E", "G", ":", " ", "5">>

L_NSONMI == <<"+", "N", "S", "O", "N", "M", "I", ":", " ", "0", ",", "4">>

L_CME == <<"+", "C", "M", "E", " ", "E", "R", "R", "O", "R", ":", " ", "5", "0">>

L_CGPADDR == <<"+", "C", "G", "P", "A", "D", "D", "R", ":", " ", "0", ",", "\"", "1", "0", ".", "0", ".", "0", ".", "7", "\"">>

\* a notification no callback is registered for
L_NPSMR == <<"+", "N", "P", "S", "M", "R", ":", " ", "1">>

\* a notification without a separator
L_NOSEP == <<"+", "B", "O", "O", "T">>

\* a registration notification whose last character is no digit
L_CEREG_BAD == <<"+", "C", "E", "R", "E", "G", ":", " ", "A">>

\* a message notification with two separators
L_NSONMI_BAD == <<"+", "N", "S", "O", "N", "M", "I", ":", " ", "0", ":", "4">>

\* an unregistered notification with the characters OK in it
L_URC_OK == <<"+", "N", "O", "K", "I", "A", ":", " ", "1">>

\* a registration notification with location fields after the status
L_CEREG5_EXT ==
    <<"+", "C", "E", "R", "E", "G", ":", " ", "5", ",", "\"", "5", "4", "D", "B", "\"", ",", "\"", "0", "F", "6", "B", "0", "5", "7", "8", "\"", ",", "9">>

\* a second message notification
L_NSONMI2 == <<"+", "N", "S", "O", "N", "M", "I", ":", " ", "1", ",", "8">>

\* a message notification without a separator
L_NSONMI_NOSEP == <<"+", "N", "S", "O", "N", "M", "I">>

\* the lines of a statistics report
L_STAT_SIGNAL ==
    <<"N", "U", "E", "S", "T", "A", "T", "S", ":", " ", "\"", "R", "A", "D", "I", "O", "\"", ",", "\"", "S", "i", "g", "n", "a", "l", " ", "p", "o", "w", "e", "r", "\"", ",", "-", "6", "8", "2">>

L_STAT_TX == <<"N", "U", "E", "S", "T", "A", "T", "S", ":", " ", "\"", "R", "A", "D", "I", "O", "\"", ",", "\"", "T", "X", " ", "p", "o", "w", "e", "r", "\"", ",", "2", "3", "0">>

\* a statistics line of another category, and one with a name of a later
\* firmware
L_STAT_CELL ==
    <<"N", "U", "E", "S", "T", "A", "T", "S", ":", " ", "\"", "C", "E", "L", "L", "\"", ",", "\"", "S", "i", "g", "n", "a", "l", " ", "p", "o", "w", "e", "r", "\"", ",", "-", "7", "0", "0">>

L_STAT_NEW == <<"N", "U", "E", "S", "T", "A", "T", "S", ":", " ", "\"", "R", "A", "D", "I", "O", "\"", ",", "\"", "B", "L", "E", "R", "\"", ",", "3">>

\* an information line that is no statistics line
L_INFO == <<"C", "G", "S", "N", ":", " ", "1">>

\* the response line of a socket read
L_UDP ==
    <<"0", ",", "\"", "1", "0", ".", "0", ".", "0", ".", "7", "\"", ",", "5", "6", "8", "3", ",", "2", ",", "\"", "C", "A", "F", "E", "\"", ",", "0">>

\* the bytes readline() returns for a line
Raw(l) == l \o CRLF

\* readline() returns b'' when the read times out
READ_TIMED_OUT == <<>>

(***************************************************************************)
(* The notification callbacks.  self is the record of the object's state   *)
(* fields; each callback gives [exc, arg, self]: the exception it raises   *)
(* (or "none"), the argument of the exception, and the fields after it.    *)
(***************************************************************************)
\* no line, no address, no argument
NoLine == <<"None">>

Returned(self) == [exc |-> "none", arg |-> NoLine, self |-> self]

Raised(e, arg, self) == [exc |-> e, arg |-> arg, self |-> self]

\* status = bool(int(urc[-1])): urc is a bytes object, urc[-1] is the code of
\* its last byte
update_connection_status_callback(self, urc) ==
    Returned([self EXCEPT !.connected = (Ord(urc[Len(urc)]) # 0)])

\* a variant of update_eps_reg_status_callback that adds the digit to the
\* status it finds
update_eps_reg_status_callback_adding(self, urc) ==
    IF IsDigit(urc[Len(urc)])
    THEN Returned([self EXCEPT !.eps_reg_status =
                       IF @ = None THEN DigitValue(urc[Len(urc)])
                       ELSE (@ + DigitValue(urc[Len(urc)])) % 10])
    ELSE Raised("ValueError", NoLine, self)

\* status = int(chr(urc[-1])): int() raises ValueError on a non-digit
update_eps_reg_status_callback(self, urc) ==
    IF IsDigit(urc[Len(urc)])
    THEN Returned([self EXCEPT !.eps_reg_status = DigitValue(urc[Len(urc)])])
    ELSE Raised("ValueError", NoLine, self)

\* ip_addr = _urc[(_urc.find('"') + 1):-1]
update_ip_address_callback(self, urc) ==
    Returned([self EXCEPT !.ip = Slice(urc, Find(urc, "\"") + 1, -1)])

\* _urc, data = urc.split(b':') raises ValueError unless there are two parts
add_available_message_callback(self, urc) ==
    IF Len(Split(urc, ":")) = 2
    THEN Returned([self EXCEPT !.available_messages =
                       Append(@, LStrip(Split(urc, ":")[2]))])
    ELSE Raised("ValueError", NoLine, self)

\* raise CMEError(urc.decode())
handle_cme_error(self, urc) == Raised("CMEError", urc, self)

\* a variant of urc_id that does not skip the leading +
urc_id_with_sentinel(urc) == Slice(urc, 0, Find(urc, ":"))

\* urc_id = _urc[1:_urc.find(':')]
urc_id(urc) == Slice(urc, 1, Find(urc, ":"))

\* callbackmap.get(urc_id, None), then the callback if there is one
process_urc(self, urc) ==
    CASE urc_id(urc) = ID_CSCON     -> update_connection_status_callback(self, urc)
      [] urc_id(urc) = ID_CEREG     -> update_eps_reg_status_callback(self, urc)
      [] urc_id(urc) = ID_CGPADDR   -> update_ip_address_callback(self, urc)
      [] urc_id(urc) = ID_NSONMI    -> add_available_message_callback(self, urc)
      [] urc_id(urc) = ID_CME_ERROR -> handle_cme_error(self, urc)
      [] OTHER                      -> Returned(self)

remove_line_ending(line) ==
    IF EndsWith(line, CRLF) THEN SubSeq(line, 1, Len(line) - 2) ELSE line

\* the line classes of the if / elif chain of _read_line_until_contains
is_urc(line) == StartsWith(line, <<"+">>)

is_ok(line) == ~is_urc(line) /\ line = TOK_OK

\* a variant of is_error that compares with the unstripped line
is_error_unstripped(line) ==
    ~is_urc(line) /\ ~is_ok(line) /\ line = TOK_ERROR \o CRLF

is_error(line) == ~is_urc(line) /\ ~is_ok(line) /\ StartsWith(line, TOK_ERROR)

is_irc(line) == ~is_urc(line) /\ ~is_ok(line) /\ ~is_error(line) /\ line # <<>>

\* the test that ends the loop: if _slice in line
loop_ends(slice, line) == Contains(line, slice)

\* One iteration of the loop of _read_line_until_contains on the bytes raw
\* that readline() returned: [exc, arg, self, irc_list, data_list, urcs, done].
\* urcs lists the lines handed to _process_urc.
read_line_step(self, slice, irc_list, data_list, urcs, raw) ==
    LET line == remove_line_ending(raw)
        r    == IF is_urc(line) THEN process_urc(self, line) ELSE Returned(self)
    IN  [exc       |-> IF is_error(line) THEN "ATError" ELSE r.exc,
         arg       |-> r.arg,
         self      |-> r.self,
         irc_list  |-> IF is_irc(line) THEN Append(irc_list, line) ELSE irc_list,
         data_list |-> Append(data_list, line),
         urcs      |-> IF is_urc(line) THEN Append(urcs, line) ELSE urcs,
         done      |-> loop_ends(slice, line)]

(***************************************************************************)
(* The radio statistics parser.  A field of the radio statistics is <<>>   *)
(* (None) or <<n>> for the integer n.                                      *)
(***************************************************************************)
NoStat == [type |-> <<>>, name |-> <<>>, value |-> 0, some |-> FALSE]

\* _parse_radio_stats_string: [exc, stat]; parts[1] and data_parts[1],
\* data_parts[2] raise IndexError when the list is too short, int() raises
\* ValueError
parse_radio_stats_string(line) ==
    LET parts      == Split(line, ":")
        irc        == Strip(parts[1])
        data       == Remove(Strip(parts[2]), "\"")
        data_parts == Split(data, ",")
    IN  IF Len(parts) < 2 THEN [exc |-> "IndexError", stat |-> NoStat]
        ELSE IF irc # IRC_NUESTATS THEN [exc |-> "none", stat |-> NoStat]
        ELSE IF Len(data_parts) < 3 THEN [exc |-> "IndexError", stat |-> NoStat]
        ELSE IF ~IsInt(data_parts[3]) THEN [exc |-> "ValueError", stat |-> NoStat]
        ELSE [exc |-> "none",
              stat |-> [type |-> data_parts[1], name |-> data_parts[2],
                        value |-> IntValue(data_parts[3]), some |-> TRUE]]

\* a variant of fold_radio_stat that ignores the category of the line
fold_radio_stat_any_type(radio, stat) ==
    IF stat.some /\ \E i \in 1..Len(RadioNames) : RadioNames[i] = stat.name
    THEN [radio EXCEPT ![RadioFields[CHOOSE i \in 1..Len(RadioNames) :
                                        RadioNames[i] = stat.name]] = <<stat.value>>]
    ELSE radio

\* one turn of the loop of _parse_radio_stats: the if / elif chain
fold_radio_stat(radio, stat) ==
    IF stat.some /\ stat.type = TYPE_RADIO
       /\ \E i \in 1..Len(RadioNames) : RadioNames[i] = stat.name
    THEN [radio EXCEPT ![RadioFields[CHOOSE i \in 1..Len(RadioNames) :
                                        RadioNames[i] = stat.name]] = <<stat.value>>]
    ELSE radio

RECURSIVE stats_exc(_)
\* the exception the list comprehension of _parse_radio_stats raises, if any
stats_exc(irc_buffer) ==
    IF irc_buffer = <<>> THEN "none"
    ELSE IF parse_radio_stats_string(Head(irc_buffer)).exc # "none"
    THEN parse_radio_stats_string(Head(irc_buffer)).exc
    ELSE stats_exc(Tail(irc_buffer))

RECURSIVE fold_radio_stats(_, _)
fold_radio_stats(radio, irc_buffer) ==
    IF irc_buffer = <<>> THEN radio
    ELSE fold_radio_stats(
             fold_radio_stat(radio, parse_radio_stats_string(Head(irc_buffer)).stat),
             Tail(irc_buffer))

\* _parse_radio_stats: the radio statistics fields after it
parse_radio_stats(radio, irc_buffer) ==
    IF stats_exc(irc_buffer) # "none" THEN radio
    ELSE fold_radio_stats(radio, irc_buffer)

(***************************************************************************)
(* send_udp_data and receive_udp_data.                                     *)
(***************************************************************************)
HOST == <<"1", "0", ".", "0", ".", "0", ".", "7">>

PORT == 5683

\* length = len(data), data a str given as its code points
send_length(data) == Len(data)

\* the command of send_udp_data, of either class
send_command(v, host, port, data) ==
    (IF v = "R4" THEN AT_USOST_PREFIX ELSE AT_SEND_TO \o <<",">>)
    \o <<"\"">> \o host \o <<"\"", ",">> \o Str(port) \o <<",">>
    \o Str(send_length(data)) \o <<",", "\"">> \o Hexlify(Encode(data)) \o <<"\"">>

\* _parse_udp_response(message[0]): [exc, data]; message[0] raises IndexError
\* on an empty result, the unpacking raises ValueError unless there are six
\* fields, bytes.fromhex raises ValueError
parse_udp_response(message) ==
    LET parts == Split(Remove(message[1], "\""), ",")
    IN  IF message = <<>> THEN [exc |-> "IndexError", data |-> <<>>]
        ELSE IF Len(parts) # 6 THEN [exc |-> "ValueError", data |-> <<>>]
        ELSE IF ~IsHex(parts[5]) THEN [exc |-> "ValueError", data |-> <<>>]
        ELSE [exc |-> "none", data |-> FromHex(parts[5])]

\* a variant of pop_message that takes the newest entry
pop_message_newest(q) ==
    IF q = <<>> THEN [exc |-> "IndexError", info |-> <<>>, rest |-> q]
    ELSE [exc |-> "none", info |-> q[Len(q)], rest |-> SubSeq(q, 1, Len(q) - 1)]

\* message_info = self.available_messages.pop(0): [exc, info, rest]
pop_message(q) ==
    IF q = <<>> THEN [exc |-> "IndexError", info |-> <<>>, rest |-> q]
    ELSE [exc |-> "none", info |-> Head(q), rest |-> Tail(q)]

(***************************************************************************)
(* The module at the other end of the serial line.  wire holds the         *)
(* commands written whose response has not been read to its end, oldest    *)
(* first; wpos says whether the acknowledgement of the oldest is still to  *)
(* come ("ack") or its body is ("body"); wcount counts the lines read that *)
(* are no acknowledgement and no terminal status.  The lines themselves    *)
(* are chosen when they are read.                                          *)
(***************************************************************************)
\* body lines of the response to a command other than those below
GeneralLines ==
    {L_EMPTY, L_SOCKET, L_NOKIA, L_CSCON0, L_CSCON1, L_CME,
     L_NPSMR, L_NOSEP, L_CEREG_BAD, L_NSONMI_BAD, L_URC_OK}

\* body lines of the response to AT+CEREG?
PollLines == {L_CEREG0, L_CEREG1, L_CEREG2, L_CEREG5}

\* notifications the module sends on its own after the command sent last
\* (<<"None">>: none yet): those of the registration after an operator
\* selection, those of the sockets otherwise
UnsolicitedLines(lastcmd) ==
    IF StartsWith(lastcmd, <<"A", "T", "+", "C", "O", "P", "S">>)
    THEN {L_CSCON1, L_CEREG1, L_CEREG2, L_CEREG5, L_CEREG5_EXT, L_CME}
    ELSE {L_CSCON1, L_NSONMI, L_NSONMI2, L_NSONMI_NOSEP, L_CGPADDR, L_CME}

\* the terminal status lines of a response
TerminalLines == {L_OK, L_ERROR}

\* body lines of the response to AT+COPS
CopsLines == {L_CEREG5, L_CME}

\* body lines of the response to AT+NUESTATS="RADIO"
StatsLines ==
    {L_STAT_SIGNAL, L_STAT_TX, L_STAT_CELL, L_STAT_NEW, L_INFO, L_SOCKET, L_CSCON1}

\* body lines of the response to AT+NSORF
NsorfLines == {L_UDP, L_SOCKET, L_NSONMI2}

BodyLines(cmd) ==
    IF cmd = AT_CEREG_QUERY THEN PollLines
    ELSE IF cmd = AT_RADIO_INFORMATION THEN StatsLines
    ELSE IF StartsWith(cmd, AT_NSORF_PREFIX) THEN NsorfLines
    ELSE IF StartsWith(cmd, AT_COPS_AUTO) \/ StartsWith(cmd, AT_COPS_PREFIX) THEN CopsLines
    ELSE GeneralLines

\* the acknowledgement of a command: a bare line ending, after the echoed
\* command and a carriage return when the module echoes
AckLines(cmd) == {CRLF, cmd \o <<CR>> \o CRLF}

\* the module may stay silent for the whole read timeout instead of sending
\* the next line of its answer to the status query
Silence(cmd) == IF cmd = AT_CEREG_QUERY THEN {READ_TIMED_OUT} ELSE {}

\* how many lines, other than acknowledgements and terminal status lines,
\* the module sends in all while a response to cmd (<<>>: none) is awaited
Budget(cmd) == IF cmd = AT_CEREG_QUERY THEN MaxPollLines ELSE MaxLines

\* what the next readline() can return; room is whether available_messages
\* may still grow in the model
Offered(w, p, c, room, lastcmd) ==
    LET all == IF w = <<>>
               THEN IF c < MaxWaitLines
                    THEN {Raw(l) : l \in UnsolicitedLines(lastcmd)} \cup {READ_TIMED_OUT}
                    ELSE {}
               ELSE IF p = "ack"
               THEN AckLines(Head(w))
                    \cup (IF c < Budget(<<>>) THEN {Raw(L_CSCON1)} ELSE {})
               ELSE (IF c < Budget(Head(w))
                     THEN {Raw(l) : l \in BodyLines(Head(w))} \cup Silence(Head(w))
                     ELSE {})
                    \cup {Raw(l) : l \in TerminalLines}
    IN  {raw \in all : room \/ urc_id(remove_line_ending(raw)) # ID_NSONMI}

\* the module's side after the read of raw
WireAfter(w, p, c, raw) ==
    IF w = <<>> THEN [w |-> w, p |-> p, c |-> c + 1]
    ELSE IF p = "ack"
    THEN IF raw \in AckLines(Head(w)) THEN [w |-> w, p |-> "body", c |-> c]
         ELSE [w |-> w, p |-> p, c |-> c + 1]
    ELSE IF remove_line_ending(raw) \in TerminalLines
    THEN [w |-> Tail(w), p |-> "ack", c |-> c]
    ELSE [w |-> w, p |-> p, c |-> c + 1]

(***************************************************************************)
(* The operator argument of connect: a name, a numeric code, or None.      *)
(***************************************************************************)
OpName(s) == [t |-> "str", s |-> s, n |-> 0]

OpCode(n) == [t |-> "int", s |-> <<>>, n |-> n]

OpNone == [t |-> "none", s |-> <<>>, n |-> 0]

Operators ==
    {OpName(NAME_TELIA), OpName(<<"t", "r", "e">>),
     OpName(<<"V", "O", "D", "A", "F", "O", "N", "E">>),
     OpCode(OPERATOR_TELIA), OpNone}

\* OPERATOR_MAP.get(operator.upper(), None); 0 stands for None
operator_map_get(name) ==
    IF name = NAME_TELIA THEN OPERATOR_TELIA
    ELSE IF name = NAME_TRE THEN OPERATOR_TRE
    ELSE 0

\* "if operator:" is false for None, for 0 and for the empty string
truthy(operator) ==
    \/ operator.t = "str" /\ operator.s # <<>>
    \/ operator.t = "int" /\ operator.n # 0

\* a variant of connect_command without the check of the looked-up code
connect_command_unchecked(operator) ==
    IF ~truthy(operator) THEN [exc |-> "none", cmd |-> AT_COPS_AUTO]
    ELSE IF operator.t = "int"
    THEN [exc |-> "none", cmd |-> AT_COPS_PREFIX \o Str(operator.n) \o <<"\"">>]
    ELSE [exc |-> "none",
          cmd |-> AT_COPS_PREFIX \o Str(operator_map_get(Upper(operator.s))) \o <<"\"">>]

\* the command connect builds: [exc, cmd]
connect_command(operator) ==
    IF ~truthy(operator) THEN [exc |-> "none", cmd |-> AT_COPS_AUTO]
    ELSE IF operator.t = "int"
    THEN [exc |-> "none", cmd |-> AT_COPS_PREFIX \o Str(operator.n) \o <<"\"">>]
    ELSE IF operator_map_get(Upper(operator.s)) = 0
    THEN [exc |-> "ValueError:operator", cmd |-> <<>>]
    ELSE [exc |-> "none",
          cmd |-> AT_COPS_PREFIX \o Str(operator_map_get(Upper(operator.s))) \o <<"\"">>]

(***************************************************************************)
(* _await_connection.                                                      *)
(***************************************************************************)
\* a variant of await_slice with the two texts exchanged
await_slice_swapped(operator) ==
    IF operator.t # "str" THEN [exc |-> "AttributeError", slice |-> <<>>]
    ELSE IF Upper(operator.s) = NAME_TELIA THEN [exc |-> "none", slice |-> TOK_CEREG1]
    ELSE IF Upper(operator.s) = NAME_TRE THEN [exc |-> "none", slice |-> TOK_CEREG5]
    ELSE [exc |-> "ValueError:operator", slice |-> <<>>]

\* SaraN211Module._await_connection: the text it waits for, [exc, slice];
\* operator.upper() raises AttributeError when operator is no string
await_slice(operator) ==
    IF operator.t # "str" THEN [exc |-> "AttributeError", slice |-> <<>>]
    ELSE IF Upper(operator.s) = NAME_TELIA THEN [exc |-> "none", slice |-> TOK_CEREG5]
    ELSE IF Upper(operator.s) = NAME_TRE THEN [exc |-> "none", slice |-> TOK_CEREG1]
    ELSE [exc |-> "ValueError:operator", slice |-> <<>>]

\* elapsed_time > timeout, at the end of an iteration
timeout_check(time, timeout) ==
    IF time > timeout THEN "ConnectionTimeoutError" ELSE "continue"

\* a variant of poll_check with the two target codes exchanged
poll_check_swapped(operator, status, time, timeout) ==
    IF status = 0 THEN "continue"
    ELSE IF operator.t # "str" THEN "AttributeError"
    ELSE IF Upper(operator.s) = NAME_TELIA
    THEN IF status = 1 THEN "break" ELSE timeout_check(time, timeout)
    ELSE IF Upper(operator.s) = NAME_TRE
    THEN IF status = 5 THEN "break" ELSE timeout_check(time, timeout)
    ELSE "ValueError:operator"

\* SaraR4Module._await_connection: what one iteration of the loop does after
\* its status query has returned: "continue", "break" or the exception raised
poll_check(operator, status, time, timeout) ==
    IF status = 0 THEN "continue"
    ELSE IF operator.t # "str" THEN "AttributeError"
    ELSE IF Upper(operator.s) = NAME_TELIA
    THEN IF status = 5 THEN "break" ELSE timeout_check(time, timeout)
    ELSE IF Upper(operator.s) = NAME_TRE
    THEN IF status = 1 THEN "break" ELSE timeout_check(time, timeout)
    ELSE "ValueError:operator"

(***************************************************************************)
(* State.                                                                  *)
(***************************************************************************)
VARIABLES
    variant,            \* "N211" or "R4": the class of the object
    echo,               \* self.echo
    connected,          \* self.connected
    eps_reg_status,     \* self.eps_reg_status
    ip,                 \* self.ip
    available_messages, \* self.available_messages
    wire, wpos, wcount, \* the module's side of the serial line
    pc,                 \* "idle", "read" (in the loop of _read_line_until_contains)
                        \* or "poll" (at the head of the polling loop)
    op,                 \* what the read loop in progress is part of
    operator,           \* the argument of the connect in progress
    slice,              \* the argument of _read_line_until_contains
    irc_list,           \* its local irc_list
    data_list,          \* its local data_list
    urcs,               \* the lines it handed to _process_urc, in order
    last,               \* the line it read last (after remove_line_ending)
    outcome,            \* how the last operation ended
    exc_arg,            \* the argument of the exception it ended with
    ret,                \* what the last _at_action returned
    io,                 \* whether the operation has written to or read from the transport
    polls,              \* status queries issued by the polling loop
    elapsed,            \* time.time() - start_time of the polling loop
    statuses,           \* eps_reg_status after each status query of the loop
    radio,              \* the radio_* fields of the object
    cmd,                \* the data _write wrote last
    ack,                \* the line _write read last as the acknowledgement
    used,               \* the message_info of each receive_udp_data, in order
    notified            \* the message notifications whose callback returned, in order

dev_vars == <<connected, eps_reg_status, ip, available_messages, radio>>

write_vars == <<cmd, ack>>

recv_vars == <<used, notified>>

wire_vars == <<wire, wpos, wcount>>

loop_vars == <<slice, irc_list, data_list, urcs, last>>

poll_vars == <<polls, elapsed, statuses>>

vars ==
    <<variant, echo, dev_vars, wire_vars, pc, op, operator, loop_vars, outcome,
      exc_arg, ret, io, poll_vars, write_vars, recv_vars>>

\* the state fields of the object, as the record the callbacks work on
Self ==
    [connected |-> connected, eps_reg_status |-> eps_reg_status, ip |-> ip,
     available_messages |-> available_messages]

\* __init__ of the object, nothing written yet
InitFields ==
    /\ connected = FALSE
    /\ eps_reg_status = None
    /\ ip = NoLine
    /\ available_messages = <<>>
    /\ wire = <<>> /\ wpos = "ack" /\ wcount = 0
    /\ pc = "idle" /\ op = "none" /\ operator = OpNone
    /\ slice = <<>> /\ irc_list = <<>> /\ data_list = <<>> /\ urcs = <<>>
    /\ last = NoLine
    /\ outcome = "none" /\ exc_arg = NoLine /\ ret = <<>> /\ io = FALSE
    /\ polls = 0 /\ elapsed = 0 /\ statuses = <<>>
    /\ radio = [f \in {RadioFields[i] : i \in 1..Len(RadioFields)} |-> <<>>]
    /\ cmd = NoLine /\ ack = NoLine
    /\ used = <<>> /\ notified = <<>>

\* SaraN211Module(port, echo)
Init == variant = "N211" /\ echo \in BOOLEAN /\ InitFields

\* SaraR4Module(port), echo=True
InitR4 == variant = "R4" /\ echo = TRUE /\ InitFields

(***************************************************************************)
(* The model writes a command only while fewer than this many are owed a   *)
(* response.                                                               *)
(***************************************************************************)
OwedLimit == IF variant = "R4" THEN MaxOwedPolling ELSE MaxOwed

(***************************************************************************)
(* _write, and with it the start of _at_action: the command is written,    *)
(* one line is read as the acknowledgement, and the read loop for OK is    *)
(* entered unless the acknowledgement is not the bare line ending.         *)
(***************************************************************************)
\* ack = ack[(len(data) + 1):] when self.echo
strip_echo(e, data, line) == IF e THEN SliceFrom(line, Len(data) + 1) ELSE line

\* a variant of ack_ok that does not take the echo off
ack_ok_unstripped(e, data, line) == line = CRLF

ack_ok(e, data, line) == strip_echo(e, data, line) = CRLF

write(data, newop) ==
    LET w1 == Append(wire, data)
        p1 == IF wire = <<>> THEN "ack" ELSE wpos
        c1 == wcount
    IN  \E raw \in Offered(w1, p1, c1, Len(available_messages) < MaxQueue, data) :
          LET a == WireAfter(w1, p1, c1, raw)
          IN  /\ wire' = a.w /\ wpos' = a.p /\ wcount' = a.c
              /\ io' = TRUE
              /\ cmd' = data /\ ack' = raw
              /\ irc_list' = <<>> /\ data_list' = <<>> /\ urcs' = <<>>
              /\ last' = NoLine /\ ret' = <<>> /\ exc_arg' = NoLine
              /\ slice' = TOK_OK
              /\ op' = newop
              /\ IF ack_ok(echo, data, raw)
                 THEN pc' = "read" /\ outcome' = "none"
                 ELSE pc' = "idle" /\ outcome' = "ValueError:ack"

(***************************************************************************)
(* What follows the return of _read_line_until_contains, by the operation  *)
(* it is part of: [pc, op, slice, outcome, ret].                           *)
(***************************************************************************)
Ends(o, how, result) ==
    [pc |-> "idle", op |-> o, slice |-> <<>>, outcome |-> how, ret |-> result]

Goes(where, o, s) ==
    [pc |-> where, op |-> o, slice |-> s, outcome |-> "none", ret |-> <<>>]

after_loop(v, o, oper, irc, status, time) ==
    CASE o = "at_action" -> Ends(o, "returned", irc)
      [] o = "send" -> Ends(o, "returned", irc)
      [] o = "radio" ->
            Ends(o, IF stats_exc(irc) = "none" THEN "returned" ELSE stats_exc(irc), <<>>)
      [] o = "receive" -> Goes("pop", o, <<>>)
      [] o = "nsorf" ->
            Ends("receive",
                 IF parse_udp_response(irc).exc = "none" THEN "returned"
                 ELSE parse_udp_response(irc).exc,
                 parse_udp_response(irc).data)
      [] o = "connect" /\ v = "N211" ->
            IF await_slice(oper).exc # "none"
            THEN Ends("await", await_slice(oper).exc, <<>>)
            ELSE Goes("read", "await", await_slice(oper).slice)
      [] o = "connect" /\ v = "R4" -> Goes("poll", "poll", <<>>)
      [] o = "await" -> Ends(o, "connected", <<>>)
      [] o = "poll" ->
            IF poll_check(oper, status, time, AWAIT_TIMEOUT) = "continue"
            THEN Goes("poll", "poll", <<>>)
            ELSE IF poll_check(oper, status, time, AWAIT_TIMEOUT) = "break"
            THEN Ends(o, "connected", <<>>)
            ELSE Ends(o, poll_check(oper, status, time, AWAIT_TIMEOUT), <<>>)

\* time.time() - start_time after d more seconds; the model stops counting
\* once the time is past the timeout
Later(time, d) == Min(time + d, AWAIT_TIMEOUT + 1)

\* the seconds a readline() takes that matter to the polling loop
read_time(raw) == IF raw = READ_TIMED_OUT THEN READ_TIMEOUT ELSE 0

(***************************************************************************)
(* Actions.                                                                *)
(***************************************************************************)
\* enable_signaling_connection_urc(): one _at_action, its result dropped
AtAction ==
    /\ pc = "idle"
    /\ Len(wire) < OwedLimit
    /\ write(AT_ENABLE_SIGNALING_CONNECTION_URC, "at_action")
    /\ operator' = OpNone
    /\ UNCHANGED <<variant, echo, dev_vars, poll_vars, recv_vars>>

\* connect(operator), up to the entry of the read loop of its _at_action
Connect ==
    /\ pc = "idle"
    /\ \E o \in Operators :
         /\ operator' = o
         /\ IF connect_command(o).exc # "none"
            THEN /\ op' = "connect" /\ pc' = "idle"
                 /\ outcome' = connect_command(o).exc
                 /\ io' = FALSE /\ ret' = <<>> /\ exc_arg' = NoLine
                 /\ slice' = <<>> /\ irc_list' = <<>> /\ data_list' = <<>>
                 /\ urcs' = <<>> /\ last' = NoLine
                 /\ UNCHANGED <<wire_vars, write_vars>>
            ELSE /\ Len(wire) < MaxOwedPolling
                 /\ write(connect_command(o).cmd, "connect")
    /\ UNCHANGED <<variant, echo, dev_vars, poll_vars, recv_vars>>

\* one iteration of the loop of _read_line_until_contains, and what the
\* callers do when it returns or raises
ReadLine ==
    /\ pc = "read"
    /\ \E raw \in Offered(wire, wpos, wcount, Len(available_messages) < MaxQueue, cmd) :
         LET r == read_line_step(Self, slice, irc_list, data_list, urcs, raw)
             a == WireAfter(wire, wpos, wcount, raw)
             k == IF r.exc # "none" THEN Ends(op, r.exc, <<>>)
                  ELSE IF ~r.done THEN Goes("read", op, slice)
                  ELSE after_loop(variant, op, operator, r.irc_list,
                                  r.self.eps_reg_status,
                                  Later(elapsed, read_time(raw)))
         IN  /\ wire' = a.w /\ wpos' = a.p /\ wcount' = a.c
             /\ connected' = r.self.connected
             /\ eps_reg_status' = r.self.eps_reg_status
             /\ ip' = r.self.ip
             /\ available_messages' = r.self.available_messages
             /\ pc' = k.pc /\ op' = k.op /\ slice' = k.slice
             /\ outcome' = k.outcome /\ ret' = k.ret
             /\ exc_arg' = r.arg
             /\ io' = TRUE
             /\ IF r.exc = "none" /\ r.done /\ k.pc = "read"
                THEN \* a new call of _read_line_until_contains begins
                     /\ irc_list' = <<>> /\ data_list' = <<>> /\ urcs' = <<>>
                     /\ last' = NoLine
                ELSE /\ irc_list' = r.irc_list
                     /\ data_list' = IF r.exc = "none" THEN r.data_list ELSE data_list
                     /\ urcs' = r.urcs
                     /\ last' = remove_line_ending(raw)
             /\ IF r.exc = "none" /\ r.done /\ op = "connect"
                THEN polls' = 0 /\ elapsed' = 0 /\ statuses' = <<>>
                ELSE /\ statuses' = IF r.exc = "none" /\ r.done /\ op = "poll"
                                    THEN Append(statuses, r.self.eps_reg_status)
                                    ELSE statuses
                     /\ elapsed' = IF op = "poll" THEN Later(elapsed, read_time(raw))
                                   ELSE elapsed
                     /\ UNCHANGED polls
             /\ radio' = IF r.exc = "none" /\ r.done /\ op = "radio"
                         THEN parse_radio_stats(radio, r.irc_list) ELSE radio
             /\ notified' = IF r.exc = "none"
                               /\ is_urc(remove_line_ending(raw))
                               /\ urc_id(remove_line_ending(raw)) = ID_NSONMI
                            THEN Append(notified, remove_line_ending(raw))
                            ELSE notified
    /\ UNCHANGED <<variant, echo, operator, write_vars, used>>

\* SaraR4Module._await_connection: time.sleep(2), then _at_action('AT+CEREG?')
\* up to the entry of its read loop
Poll ==
    /\ pc = "poll"
    /\ polls < MaxPolls
    /\ Len(wire) < OwedLimit
    /\ polls' = polls + 1
    /\ elapsed' = Later(elapsed, POLL_SLEEP)
    /\ write(AT_CEREG_QUERY, "poll")
    /\ UNCHANGED <<variant, echo, dev_vars, operator, statuses, recv_vars>>

\* _update_radio_statistics(), up to the entry of the read loop
UpdateRadioStatistics ==
    /\ pc = "idle"
    /\ Len(wire) < OwedLimit
    /\ write(AT_RADIO_INFORMATION, "radio")
    /\ operator' = OpNone
    /\ UNCHANGED <<variant, echo, dev_vars, poll_vars, recv_vars>>

\* the payloads of send_udp_data in the model, as code points: "hi", an
\* e with an acute accent, "h" and the euro sign, a character outside the
\* basic plane
Payloads == {<<104, 105>>, <<233>>, <<104, 8364>>, <<128512>>}

\* send_udp_data(host, port, data), up to the entry of the read loop
SendUdpData ==
    /\ pc = "idle"
    /\ Len(wire) < OwedLimit
    /\ \E data \in Payloads : write(send_command(variant, HOST, PORT, data), "send")
    /\ operator' = OpNone
    /\ UNCHANGED <<variant, echo, dev_vars, poll_vars, recv_vars>>

\* receive_udp_data(), up to the entry of the read loop for '+NSONMI'
Receive ==
    /\ pc = "idle"
    /\ pc' = "read" /\ op' = "receive" /\ slice' = TOK_NSONMI
    /\ irc_list' = <<>> /\ data_list' = <<>> /\ urcs' = <<>> /\ last' = NoLine
    /\ outcome' = "none" /\ exc_arg' = NoLine /\ ret' = <<>> /\ io' = FALSE
    /\ operator' = OpNone
    /\ UNCHANGED <<variant, echo, dev_vars, wire_vars, poll_vars, write_vars, recv_vars>>

\* receive_udp_data() after its wait: available_messages.pop(0), then the
\* _at_action of AT+NSORF up to the entry of its read loop
Pop ==
    /\ pc = "pop"
    /\ IF pop_message(available_messages).exc # "none"
       THEN /\ pc' = "idle" /\ outcome' = pop_message(available_messages).exc
            /\ UNCHANGED <<available_messages, used, wire_vars, write_vars, op,
                           loop_vars, exc_arg, ret, io>>
       ELSE /\ Len(wire) < OwedLimit
            /\ available_messages' = pop_message(available_messages).rest
            /\ used' = Append(used, pop_message(available_messages).info)
            /\ write(AT_NSORF_PREFIX \o pop_message(available_messages).info, "nsorf")
    /\ UNCHANGED <<variant, echo, connected, eps_reg_status, ip, radio, operator,
                   poll_vars, notified>>

Next == AtAction \/ ReadLine

Spec == Init /\ [][Next]_vars

NextR4 == Connect \/ ReadLine \/ Poll

SpecR4 == InitR4 /\ [][NextR4]_vars

\* connect of SaraN211Module, with the passive wait
NextConnect == Connect \/ ReadLine

SpecConnect == Init /\ [][NextConnect]_vars

NextRadio == UpdateRadioStatistics \/ ReadLine

SpecRadio == Init /\ [][NextRadio]_vars

NextReceive == Receive \/ Pop \/ ReadLine

SpecReceive == Init /\ [][NextReceive]_vars

\* send_udp_data of either class
InitSend == variant \in {"N211", "R4"} /\ echo = (variant = "R4") /\ InitFields

NextSend == SendUdpData \/ ReadLine

SpecSend == InitSend /\ [][NextSend]_vars

(***************************************************************************)
(* Properties.                                                             *)
(***************************************************************************)
LastOf(q) == q[Len(q)]

FrontOf(q) == SubSeq(q, 1, Len(q) - 1)

NotEmptyLine(l) == l # <<>>

IsNotification(l) == StartsWith(l, <<"+">>)

\* an _at_action has returned its result
AtActionReturned == pc = "idle" /\ op = "at_action" /\ outcome = "returned"

\* the read loop has read a line in the operation in progress or just ended
HasRead == last # NoLine

\* C1: when no notification line was read, _at_action returns exactly the
\* non-empty lines read before the terminal status line, in order, and the
\* last line read is that status line.
C1_ResultIsResponseBody ==
    (AtActionReturned /\ urcs = <<>>) =>
        /\ data_list # <<>>
        /\ LastOf(data_list) = L_OK
        /\ ret = SelectSeq(FrontOf(data_list), NotEmptyLine)

\* C2: at the return of _at_action the notification lines were all handed to
\* _process_urc, in order, before the terminal status line was read, which
\* is the last line read; no notification line is in the result.
C2_NotificationsDispatchedBeforeStatus ==
    AtActionReturned =>
        /\ data_list # <<>>
        /\ LastOf(data_list) = L_OK
        /\ urcs = SelectSeq(FrontOf(data_list), IsNotification)
        /\ \A i \in 1..Len(ret) : ~IsNotification(ret[i])

\* C3: once the read loop has read a line that starts with ERROR, the
\* operation has failed with ATError and has returned no result, whatever
\* result lines and notifications were read before it.
C3_ErrorLineRaisesATError ==
    (HasRead /\ StartsWith(last, TOK_ERROR)) =>
        /\ pc = "idle"
        /\ outcome = "ATError"
        /\ ret = <<>>

\* C3 witness: ATError after a result line and a notification were read.
C3_Witness ==
    /\ outcome = "ATError" /\ last = L_ERROR
    /\ Len(irc_list) = 1 /\ Len(urcs) = 1

\* C4: once the read loop has read a +CME ERROR: line, the operation has
\* failed with CMEError, whose argument is that line, and has returned no
\* result, however many result lines were collected before it.
C4_CmeErrorAborts ==
    (HasRead /\ StartsWith(last, <<"+">> \o ID_CME_ERROR \o <<":">>)) =>
        /\ pc = "idle"
        /\ outcome = "CMEError"
        /\ exc_arg = last
        /\ ret = <<>>

\* C4 witness: CMEError after a result line was collected.
C4_Witness ==
    /\ outcome = "CMEError" /\ last = L_CME
    /\ Len(irc_list) = 1

\* the connection status notifications among the lines handed to _process_urc
ConnectionStatusLines == SelectSeq(urcs, LAMBDA l : urc_id(l) = ID_CSCON)

\* C8: the connected flag is what the connection status notification
\* dispatched last says: false for a last character 0, true for 1.
C8_ConnectedFollowsNotification ==
    ConnectionStatusLines # <<>> =>
        (connected <=> (LastOf(LastOf(ConnectionStatusLines)) = "1"))

\* a response has been read in part: lines of it are still to be read
ResponseOpen == wire # <<>> /\ wpos = "body"

\* C9: _at_action returns only upon a line that is exactly OK, and then no
\* line of a response is left to be read.
C9_ReturnsOnlyOnExactOk ==
    AtActionReturned => (last = L_OK /\ ~ResponseOpen)

\* C10: a notification other than the fatal module error never makes the
\* operation fail.
C10_NotificationsNeverFail ==
    (HasRead /\ IsNotification(last) /\ urc_id(last) # ID_CME_ERROR) =>
        outcome \in {"none", "returned", "connected"}

(***************************************************************************)
(* Properties of connect and of the polling loop (SpecR4).                 *)
(***************************************************************************)
\* the operator is one of the two names with a target registration code
Named(o) == o.t = "str" /\ Upper(o.s) \in {NAME_TELIA, NAME_TRE}

\* the target registration code of a named operator: TELIA 5, TRE 1
Target(o) == IF Upper(o.s) = NAME_TELIA THEN 5 ELSE 1

\* C5: for TELIA and TRE the polling loop never begins another iteration once the elapsed time
\* is past the timeout: the time is checked in every iteration and
\* ConnectionTimeoutError ends the loop.
C5_NoPollPastTimeout ==
    (pc = "poll" /\ Named(operator)) => elapsed <= AWAIT_TIMEOUT

\* C6: for TELIA and TRE the polling loop ends Connected exactly at the first
\* status query after which the registration status is the target code: no
\* earlier query left the status at the target, none is issued after it.
C6_ConnectsAtFirstTargetStatus ==
    (op = "poll" /\ Named(operator)) =>
        /\ \A i \in 1..(Len(statuses) - 1) : statuses[i] # Target(operator)
        /\ (outcome = "connected") <=>
               (statuses # <<>> /\ LastOf(statuses) = Target(operator))
        /\ (outcome = "connected") => (pc = "idle" /\ polls = Len(statuses))

\* C6 witness: TELIA, status 0 after the first query, 5 after the second.
C6_Witness ==
    /\ op = "poll" /\ outcome = "connected"
    /\ Upper(operator.s) = NAME_TELIA
    /\ statuses = <<0, 5>> /\ polls = 2

\* the operator is a name that OPERATOR_MAP does not have
Unsupported(o) == o.t = "str" /\ o.s # <<>> /\ Upper(o.s) \notin {NAME_TELIA, NAME_TRE}

\* C7: a connect with an unsupported operator name ends at once with the
\* unsupported-operator error: nothing is written to or read from the
\* transport, and the state fields keep their values.
C7_UnsupportedOperatorFailsFirst ==
    [][(pc = "idle" /\ op' = "connect" /\ Unsupported(operator')) =>
           /\ pc' = "idle"
           /\ outcome' = "ValueError:operator"
           /\ io' = FALSE
           /\ UNCHANGED <<dev_vars, wire_vars>>]_vars

\* C7 witness: the error, in an object whose fields are no longer the
\* initial ones and to which a response is still owed.
C7_Witness ==
    /\ op = "connect" /\ outcome = "ValueError:operator" /\ Unsupported(operator)
    /\ eps_reg_status = 5 /\ io = FALSE

(***************************************************************************)
(* Properties of the folds of the device state.                            *)
(***************************************************************************)
\* C11: when the read loop dispatches a registration status notification
\* and the line it read just before was the same notification, the EPS
\* registration status and every other state field keep the values they
\* had after the first dispatch.
C11_RegistrationFoldIdempotent ==
    [][(/\ pc = "read" /\ urcs # <<>> /\ last = LastOf(urcs)
        /\ urc_id(last) = ID_CEREG
        /\ urcs' = Append(urcs, last))
       => UNCHANGED dev_vars]_vars

\* C11 witness: +CEREG: 2 dispatched twice in a row.
C11_Witness ==
    /\ urcs = <<L_CEREG2, L_CEREG2>> /\ last = L_CEREG2 /\ eps_reg_status = 2

\* C12: when _update_radio_statistics returns after a report of one line,
\* a RADIO line with a known name has set the field of that name to the
\* reported integer and a line with an unmatched category or name has set
\* none; every other radio statistics field and every other state field
\* is as before.
C12_RadioFoldFrame ==
    [][(/\ op = "radio" /\ pc = "read" /\ pc' = "idle" /\ outcome' = "returned"
        /\ Len(irc_list') = 1)
       => /\ UNCHANGED <<connected, eps_reg_status, ip, available_messages>>
          /\ irc_list'[1] = L_STAT_SIGNAL =>
                 radio' = [radio EXCEPT !["radio_signal_power"] = <<0 - 682>>]
          /\ irc_list'[1] = L_STAT_TX =>
                 radio' = [radio EXCEPT !["radio_tx_power"] = <<230>>]
          /\ irc_list'[1] \in {L_STAT_CELL, L_STAT_NEW} => radio' = radio]_vars

\* C12 witness: the signal power set by a report of one line, the TX power
\* of an earlier report still there.
C12_Witness ==
    /\ op = "radio" /\ outcome = "returned" /\ irc_list = <<L_STAT_SIGNAL>>
    /\ radio["radio_signal_power"] = <<0 - 682>>
    /\ radio["radio_tx_power"] = <<230>>
    /\ radio["radio_total_power"] = <<>>

\* the payload of a message notification: the text after the separator,
\* without leading whitespace
Payload(l) == LStrip(SliceFrom(l, Find(l, ":") + 1))

\* C13: the message references receive_udp_data has used, followed by the
\* entries still in the queue, are the payloads of the message notifications
\* dispatched so far, in the order of their dispatch.
C13_QueueIsFifo ==
    used \o available_messages = [i \in 1..Len(notified) |-> Payload(notified[i])]

\* C13 witness: two receive calls have used the payloads of the first two
\* notifications, a third is queued behind them.
C13_Witness ==
    /\ used = <<Payload(L_NSONMI), Payload(L_NSONMI2)>>
    /\ Len(notified) = 3
    /\ available_messages = <<Payload(notified[3])>>

(***************************************************************************)
(* Properties of the passive wait (SpecConnect).                           *)
(***************************************************************************)
\* a registration status notification
IsRegistration(l) == IsNotification(l) /\ urc_id(l) = ID_CEREG

\* the status value of a registration notification: the first character of
\* its payload
RegValue(l) == DigitValue(Payload(l)[1])

\* C14: for TELIA and TRE the passive wait has ended Connected exactly when
\* the line read last is a registration notification with the target value;
\* no such line was read earlier in the wait, and a +CME ERROR line read in
\* the wait has ended it with CMEError.
C14_PassiveWaitEndsAtTarget ==
    (op = "await" /\ Named(operator)) =>
        /\ (outcome = "connected") <=>
               (HasRead /\ IsRegistration(last) /\ RegValue(last) = Target(operator))
        /\ \A i \in 1..(Len(urcs) - 1) :
               ~(IsRegistration(urcs[i]) /\ RegValue(urcs[i]) = Target(operator))
        /\ (HasRead /\ urc_id(last) = ID_CME_ERROR) =>
               (pc = "idle" /\ outcome = "CMEError")

\* C14 witness: TRE, +CEREG: 2 and then +CEREG: 1 read in the wait.
C14_Witness ==
    /\ op = "await" /\ outcome = "connected" /\ Upper(operator.s) = NAME_TRE
    /\ urcs = <<L_CEREG2, L_CEREG1>>

C16_AllOperatorFormsAccepted ==
    (op \in {"connect", "await", "poll"} /\ ~Unsupported(operator)) =>
        outcome \notin {"ValueError:operator", "AttributeError"}

\* C18: when the passive wait has ended Connected for TELIA or TRE, the EPS
\* registration status is the target code of the operator.
C18_ConnectedStatusIsTarget ==
    (op = "await" /\ outcome = "connected" /\ Named(operator)) =>
        eps_reg_status = Target(operator)

(***************************************************************************)
(* Properties of send_udp_data and receive_udp_data.                       *)
(***************************************************************************)
\* C17: in the command send_udp_data wrote, the length argument is the
\* number of bytes the hex argument encodes: half the length of the hex
\* text between its quotes.
C17_LengthIsByteCount ==
    op = "send" =>
        2 * IntValue(Split(cmd, ",")[4]) = Len(Split(cmd, ",")[5]) - 2

\* C19: when the wait of receive_udp_data for a line with +NSONMI has
\* returned, available_messages is not empty.
C19_PopFindsAMessage ==
    pc = "pop" => available_messages # <<>>

====
